---- MODULE Spec2Model ----
(***************************************************************************)
(* Model of server.py: the archivate request handler, the directory        *)
(* resolver _exists, the response header builder, and the external world   *)
(* the handler talks to (zip subprocess, asyncio stream, HTTP response).   *)
(*                                                                         *)
(* Every request of Reqs owns its own copy of the handler's locals.  A     *)
(* handler is a coroutine: each `await` of archivate is one pc value at    *)
(* which the handler is suspended, and at which the framework may deliver  *)
(* a cancellation (asyncio.CancelledError raised out of the await).        *)
(***************************************************************************)
EXTENDS Integers, Sequences, FiniteSets, TLC

\* ------------------------------------------------------------------ bounds
\* Number of request slots of the model.
NumReqs == 2
\* Longest identifier (in characters) a request carries.
MaxIdLen == 2
\* Largest number of bytes the archiver writes to its stdout.
MaxOut == 3
\* Largest number of bytes an archiver writes when two requests are served.
ConcOut == 1

\* --------------------------------------------------------------- constants
\* server.py:39 CHUNK_SIZE = 256*1024, scaled to bytes of the model.
CHUNK_SIZE == 2
\* server.py:36 TIME2DELAY = 1 (seconds).
TIME2DELAY == 1

Reqs == 1..NumReqs

\* Characters an identifier is made of: a name character, the dot and the
\* path separator.
Chars == {"a", ".", "/"}

RECURSIVE SeqsUpTo(_, _)
SeqsUpTo(S, n) ==
  IF n = 0 THEN {<<>>}
  ELSE LET shorter == SeqsUpTo(S, n - 1)
       IN  shorter \cup {Append(s, c) : s \in {t \in shorter : Len(t) = n - 1}, c \in S}

\* The identifiers a request can carry in match_info['archive_hash'].
Identifiers == SeqsUpTo(Chars, MaxIdLen)

\* request.match_info: a dict that holds the key 'archive_hash' or does not.
MatchInfos == {<<>>} \cup {[archive_hash |-> i] : i \in Identifiers}

Min(a, b) == IF a <= b THEN a ELSE b

\* -------------------------------------------------------------- filesystem
\* Directories of the host, as absolute paths (sequences of names; a name is
\* a sequence of characters).  The server runs in /w, the media root is the
\* relative path "m", and the media root holds one archive directory "a".
Dirs == { <<>>,
          << <<"w">> >>,
          << <<"w">>, <<"m">> >>,
          << <<"w">>, <<"m">>, <<"a">> >> }

\* The server process's working directory.
Cwd == << <<"w">> >>

\* server.py:42 the default media directory, 'test_photos': a relative,
\* single name.
test_photos == <<"m">>

\* ----------------------------------------------------------------- settings
VARIABLES
  environ,     \* os.environ: per name, <<>> when unset, else <<value>>
  args,        \* the Namespace of _parse_args; an absent option is <<>> (None)
  main,        \* where the __main__ block stands
  LOG_LVL,     \* log level (server.py:45)
  SLOWDOWN,    \* process-wide pacing flag (server.py:34)
  MEDIA_DIR    \* media root (server.py:42)

cfgVars == <<environ, args, main, LOG_LVL, SLOWDOWN, MEDIA_DIR>>

\* logging.ERROR and logging.NOTSET
ERROR == 40
NOTSET == 0

\* Environment values the model draws from; a string is a sequence of
\* characters, an unset variable is <<>>.
Environs ==
  [ LOGGING   : {<<>>, << <<"0">> >>, << <<"1", "0">> >>},
    SLOWDOWN  : {<<>>, << <<>> >>, << <<"1">> >>},
    MEDIA_DIR : {<<>>, << <<"a">> >>} ]

\* server.py:157-164 what parse_args can return: --debug takes ON or OFF,
\* --slowdown is a flag (False when absent), --media takes any string.
Namespaces ==
  [ debug    : {<<>>, <<"ON">>, <<"OFF">>},
    slowdown : BOOLEAN,
    media    : {<<>>, << <<>> >>, << <<"a">> >>, << <<"m">> >>} ]

\* The Namespace of a command line with no option.
NoArgs == [debug |-> <<>>, slowdown |-> FALSE, media |-> <<>>]

NoEnv == [LOGGING |-> <<>>, SLOWDOWN |-> <<>>, MEDIA_DIR |-> <<>>]

DigitValue(c) ==
  CASE c = "0" -> 0 [] c = "1" -> 1 [] c = "2" -> 2 [] c = "3" -> 3
    [] c = "4" -> 4 [] c = "5" -> 5 [] c = "6" -> 6 [] c = "7" -> 7
    [] c = "8" -> 8 [] c = "9" -> 9

\* Python's int() of a string of decimal digits.
RECURSIVE int(_)
int(s) ==
  IF s = <<>> THEN 0
  ELSE 10 * int(SubSeq(s, 1, Len(s) - 1)) + DigitValue(s[Len(s)])

\* Python's truth value of an optional string: None and '' are falsy.
Truthy(opt) == opt # <<>> /\ opt[1] # <<>>

\* server.py:34-45 the module-level settings, read from the environment.
Imported(env) ==
  [ SLOWDOWN  |-> Truthy(env.SLOWDOWN),
    MEDIA_DIR |-> IF env.MEDIA_DIR = <<>> THEN test_photos ELSE env.MEDIA_DIR[1],
    LOG_LVL   |-> IF env.LOGGING = <<>> THEN ERROR ELSE int(env.LOGGING[1]) ]

\* server.py:183-186
_map == [ON |-> NOTSET, OFF |-> ERROR]

\* server.py:173-193 dbg_lvl(value), reading the global LOG_LVL as lvl.
dbg_lvl(value, lvl) ==
  IF value = <<>> THEN lvl
  ELSE IF value[1] \in DOMAIN _map THEN _map[value[1]] ELSE NOTSET

\* server.py:169-208 _configure_settings(args), from the settings s.
_configure_settings(a, s) ==
  [ LOG_LVL   |-> dbg_lvl(a.debug, s.LOG_LVL),
    SLOWDOWN  |-> IF a.slowdown THEN a.slowdown ELSE s.SLOWDOWN,
    MEDIA_DIR |-> IF Truthy(a.media) THEN a.media[1] ELSE s.MEDIA_DIR ]

Settings == [LOG_LVL |-> LOG_LVL, SLOWDOWN |-> SLOWDOWN, MEDIA_DIR |-> MEDIA_DIR]

\* The module's globals hold the settings s.
SettingsAre(s) ==
  /\ LOG_LVL = s.LOG_LVL
  /\ SLOWDOWN = s.SLOWDOWN
  /\ MEDIA_DIR = s.MEDIA_DIR

NoDir == << <<"?">>, <<"?">>, <<"?">>, <<"?">>, <<"?">>, <<"?">>, <<"?">>, <<"?">> >>

\* posixpath.join(a, b): an absolute b discards a; otherwise b is appended
\* after exactly one separator.
join(a, b) ==
  IF b # <<>> /\ Head(b) = "/" THEN b
  ELSE IF a = <<>> \/ a[Len(a)] = "/" THEN a \o b
  ELSE a \o <<"/">> \o b

\* The components of a path, split at every separator (empty components
\* included, as the kernel sees them).
RECURSIVE Split(_, _, _)
Split(path, i, cur) ==
  IF i > Len(path) THEN <<cur>>
  ELSE IF path[i] = "/" THEN <<cur>> \o Split(path, i + 1, <<>>)
  ELSE Split(path, i + 1, Append(cur, path[i]))

\* Kernel path resolution: walk the components from dir `at`.
RECURSIVE Walk(_, _)
Walk(at, comps) ==
  IF at \notin Dirs THEN NoDir
  ELSE IF comps = <<>> THEN at
  ELSE LET c == Head(comps)
           next == IF c = <<>> \/ c = <<".">> THEN at
                   ELSE IF c = <<".", ".">>
                        THEN (IF at = <<>> THEN at ELSE SubSeq(at, 1, Len(at) - 1))
                   ELSE Append(at, c)
       IN  Walk(next, Tail(comps))

\* The directory a path resolves to, or NoDir.
Resolve(path) ==
  IF path = <<>> THEN NoDir
  ELSE Walk(IF Head(path) = "/" THEN <<>> ELSE Cwd, Split(path, 1, <<>>))

\* os.path.isdir(path)
isdir(path) == Resolve(path) \in Dirs

\* A resolver that takes every identifier for an existing directory.
ExistsAlways(files_folder) == TRUE

\* server.py:48 _exists(files_folder)
_exists(files_folder) == isdir(join(MEDIA_DIR, files_folder))

\* A response set up without any header.
NoHeaders(file_name) == {}

\* server.py:62 _response_header(file_name): the headers of a fresh
\* StreamResponse, as a set of <<name, value>> pairs.
_response_header(file_name) ==
  { <<"Content-Type", <<"application/zip">> >>,
    <<"Content-Disposition",
      <<"attachment; filename=\"">> \o file_name \o <<".zip\"">> >> }

\* ------------------------------------------------------------------- state
VARIABLES
  match_info,  \* per request: request.match_info
  pc,          \* per request: where the handler stands in archivate
  headers,     \* per request: response.headers
  prepared,    \* per request: response.prepare() has sent the headers
  procState,   \* per request: "none", "running", "killed" (SIGKILL sent), "exited"
  returncode,  \* per request: exit status of the archiver once it has exited
  exitPc,      \* per request: "loop" when the archiver exited while the handler was in the relay loop, "after" when later
  eof,         \* per request: zip_process.stdout has been fed end-of-file
  buffer,      \* per request: bytes in zip_process.stdout not yet read
  produced,    \* per request: every byte the archiver has written so far
  chunk,       \* per request: the local `chunk`
  sent,        \* per request: payload bytes written to the response
  eofSent,     \* per request: completed response.write_eof() calls
  exc,         \* per request: the exception in flight in the handler
  relayExc,    \* per request: the first exception raised inside the try block
  killCalls,   \* per request: calls of zip_process.kill()
  reaped,      \* per request: zip_process.wait() has returned to the handler
  result,      \* per request: how the handler left its body
  log          \* per request: the calls the handler made, in order

reqVars  == <<match_info, pc, headers, prepared, chunk, exc, relayExc, result, log>>
procVars == <<procState, returncode, exitPc, eof, buffer, produced, killCalls, reaped>>
respVars == <<sent, eofSent>>
vars == <<cfgVars, reqVars, procVars, respVars>>

NoChunk == <<>>

\* One entry of the call log.
Call(op, n, err) == [op |-> op, n |-> n, err |-> err]

\* Exit status of a process ended by SIGKILL.
SIGKILLED == -9

\* The pc values at which the handler is suspended in an `await`.
Awaits == {"prepare", "spawn", "read", "write", "sleep", "write_eof", "waiting"}

\* A try block that ends with the loop, write_eof left outside of it.
TryLoopOnly == {"read", "write", "sleep"}

\* The awaits that lie inside the try block (server.py:108-119).
TryAwaits == {"read", "write", "sleep", "write_eof"}

\* The pc values of the relay loop (server.py:109-117).
LoopPcs == {"at_eof", "read", "write", "sleep"}

\* The awaited call of each suspension point.
OpOf(p) ==
  CASE p = "prepare"   -> "prepare"
    [] p = "spawn"     -> "spawn"
    [] p = "read"      -> "read"
    [] p = "write"     -> "write"
    [] p = "sleep"     -> "sleep"
    [] p = "write_eof" -> "write_eof"
    [] p = "waiting"   -> "wait"

\* --------------------------------------------------------------------- init
\* The requests of `active` have been routed to archivate, each with some
\* match_info; no handler has run.
Routed(active, infos) ==
  /\ match_info \in [Reqs -> infos]
  /\ \A r \in Reqs \ active : match_info[r] = <<>>
  /\ pc = [r \in Reqs |-> IF r \in active THEN "start" ELSE "idle"]
  /\ headers = [r \in Reqs |-> {}]
  /\ prepared = [r \in Reqs |-> FALSE]
  /\ procState = [r \in Reqs |-> "none"]
  /\ returncode = [r \in Reqs |-> 0]
  /\ exitPc = [r \in Reqs |-> "none"]
  /\ eof = [r \in Reqs |-> FALSE]
  /\ buffer = [r \in Reqs |-> <<>>]
  /\ produced = [r \in Reqs |-> <<>>]
  /\ chunk = [r \in Reqs |-> NoChunk]
  /\ sent = [r \in Reqs |-> <<>>]
  /\ eofSent = [r \in Reqs |-> 0]
  /\ exc = [r \in Reqs |-> "none"]
  /\ relayExc = [r \in Reqs |-> "none"]
  /\ killCalls = [r \in Reqs |-> 0]
  /\ reaped = [r \in Reqs |-> FALSE]
  /\ result = [r \in Reqs |-> "none"]
  /\ log = [r \in Reqs |-> <<>>]

\* server.py:211-222 the application runs: the settings are those of an
\* empty environment, configured with or without --slowdown.
Serving ==
  /\ main = "serving"
  /\ environ = NoEnv
  /\ args \in {a \in Namespaces : a.debug = <<>> /\ a.media = <<>>}
  /\ SettingsAre(_configure_settings(args, Imported(environ)))

\* The state after the application is set up.
InitWith(active, infos) == Serving /\ Routed(active, infos)

\* One request is being served.
Init == InitWith({1}, MatchInfos)

\* ------------------------------------------------------------------ startup
\* server.py:34-45 the module has been imported: the settings hold the
\* values read from the environment, the command line is not parsed yet.
ConfigInit ==
  /\ main = "parse"
  /\ environ \in Environs
  /\ args = NoArgs
  /\ SettingsAre(Imported(environ))
  /\ Routed({}, {<<>>})

\* server.py:212 args = _parse_args()
ParseArgs ==
  /\ main = "parse"
  /\ args' \in Namespaces
  /\ main' = "configure"
  /\ UNCHANGED <<environ, LOG_LVL, SLOWDOWN, MEDIA_DIR, reqVars, procVars, respVars>>

\* server.py:213 _configure_settings(args)
Configure ==
  /\ main = "configure"
  /\ LET s == _configure_settings(args, Settings)
     IN /\ LOG_LVL' = s.LOG_LVL
        /\ SLOWDOWN' = s.SLOWDOWN
        /\ MEDIA_DIR' = s.MEDIA_DIR
  /\ main' = "serving"
  /\ UNCHANGED <<environ, args, reqVars, procVars, respVars>>

ConfigNext == ParseArgs \/ Configure

ConfigSpec == ConfigInit /\ [][ConfigNext]_vars

\* ----------------------------------------------------- handler: validation
\* A validation that only asks whether the key is there.
HasKey(mi) == "archive_hash" \in DOMAIN mi

\* server.py:93 request.match_info.get('archive_hash'), and Python's
\* truth value of it: None and '' are both falsy.
HasHash(mi) == "archive_hash" \in DOMAIN mi /\ mi.archive_hash # <<>>

archive_hash(r) == match_info[r].archive_hash

\* Leave the handler body: by `return` (err = "returned") or by an exception.
Leave(r, how) ==
  /\ pc' = [pc EXCEPT ![r] = "done"]
  /\ result' = [result EXCEPT ![r] = how]

\* server.py:93-95
CheckHash(r) ==
  /\ pc[r] = "start"
  /\ IF HasHash(match_info[r])
     THEN /\ pc' = [pc EXCEPT ![r] = "exists"]
          /\ UNCHANGED <<result, exc>>
     ELSE /\ Leave(r, "HTTPBadRequest")
          /\ exc' = [exc EXCEPT ![r] = "HTTPBadRequest"]
  /\ UNCHANGED <<cfgVars, match_info, headers, prepared, chunk, relayExc, log,
                 procVars, respVars>>

\* server.py:97-99
CheckExists(r) ==
  /\ pc[r] = "exists"
  /\ IF _exists(archive_hash(r))
     THEN /\ pc' = [pc EXCEPT ![r] = "header"]
          /\ UNCHANGED <<result, exc>>
     ELSE /\ Leave(r, "HTTPNotFound")
          /\ exc' = [exc EXCEPT ![r] = "HTTPNotFound"]
  /\ UNCHANGED <<cfgVars, match_info, headers, prepared, chunk, relayExc, log,
                 procVars, respVars>>

\* server.py:101
MakeResponse(r) ==
  /\ pc[r] = "header"
  /\ headers' = [headers EXCEPT ![r] = _response_header(archive_hash(r))]
  /\ pc' = [pc EXCEPT ![r] = "prepare"]
  /\ UNCHANGED <<cfgVars, match_info, prepared, chunk, exc, relayExc, result, log,
                 procVars, respVars>>

\* server.py:102 await response.prepare(request): the status line and the
\* headers go out to the client ...
PrepareOk(r) ==
  /\ pc[r] = "prepare"
  /\ prepared' = [prepared EXCEPT ![r] = TRUE]
  /\ pc' = [pc EXCEPT ![r] = "spawn"]
  /\ log' = [log EXCEPT ![r] = Append(@, Call("prepare", 0, "none"))]
  /\ UNCHANGED <<cfgVars, match_info, headers, chunk, exc, relayExc, result,
                 procVars, respVars>>

\* ... or the connection is already gone and prepare raises.
PrepareFail(r) ==
  /\ pc[r] = "prepare"
  /\ Leave(r, "ConnectionResetError")
  /\ exc' = [exc EXCEPT ![r] = "ConnectionResetError"]
  /\ log' = [log EXCEPT ![r] = Append(@, Call("prepare", 0, "ConnectionResetError"))]
  /\ UNCHANGED <<cfgVars, match_info, headers, prepared, chunk, relayExc,
                 procVars, respVars>>

Prepare(r) == PrepareOk(r) \/ PrepareFail(r)

\* server.py:104-106 await asyncio.create_subprocess_exec('zip', ...): the
\* archiver starts ...
SpawnOk(r) ==
  /\ pc[r] = "spawn"
  /\ procState' = [procState EXCEPT ![r] = "running"]
  /\ pc' = [pc EXCEPT ![r] = "at_eof"]
  /\ log' = [log EXCEPT ![r] = Append(@, Call("spawn", 0, "none"))]
  /\ UNCHANGED <<cfgVars, match_info, headers, prepared, chunk, exc, relayExc, result,
                 returncode, exitPc, eof, buffer, produced, killCalls, reaped, respVars>>

\* ... or the spawn raises (zip missing or not executable).
SpawnFail(r) ==
  /\ pc[r] = "spawn"
  /\ Leave(r, "FileNotFoundError")
  /\ exc' = [exc EXCEPT ![r] = "FileNotFoundError"]
  /\ log' = [log EXCEPT ![r] = Append(@, Call("spawn", 0, "FileNotFoundError"))]
  /\ UNCHANGED <<cfgVars, match_info, headers, prepared, chunk, relayExc,
                 procVars, respVars>>

Spawn(r) == SpawnOk(r) \/ SpawnFail(r)

\* ----------------------------------------------------- handler: relay loop
\* An end-of-stream test that ignores the bytes still buffered.
EofFedOnly(buf, e) == e

\* server.py:110 zip_process.stdout.at_eof(): end-of-file was fed and the
\* buffer is drained.
at_eof(buf, e) == e /\ buf = <<>>

\* A read that resumes on data only, never on end-of-file.
ReadNeedsData(buf, e) == buf # <<>>

\* A read that returns at once, with nothing when nothing is buffered.
ReadNeverWaits(buf, e) == TRUE

\* StreamReader.read(n) returns once there is data or end-of-file.
ReadReady(buf, e) == buf # <<>> \/ e

\* A read that hands over everything buffered, whatever the size asked for.
ReadAll(buf, n) == buf

\* StreamReader.read(n): up to n bytes from the front of the buffer (b'' at
\* end-of-file), which are removed from the buffer.
ReadData(buf, n) == SubSeq(buf, 1, Min(n, Len(buf)))

ReadRest(buf, n) == SubSeq(buf, Min(n, Len(buf)) + 1, Len(buf))

\* StreamResponse.write(data): the payload the client has after the write.
Deliver(body, data) == body \o data

\* An exception raised at an await inside the try block: control goes to
\* the bare `except:` clause (server.py:120).
Raise(r, e) ==
  /\ pc' = [pc EXCEPT ![r] = "except"]
  /\ exc' = [exc EXCEPT ![r] = e]
  /\ relayExc' = [relayExc EXCEPT ![r] = e]

\* server.py:109-111 the end-of-stream test at the top of the loop; leaving
\* the loop leads to write_eof (server.py:119).
AtEof(r) ==
  /\ pc[r] = "at_eof"
  /\ pc' = [pc EXCEPT ![r] =
              IF at_eof(buffer[r], eof[r]) THEN "write_eof" ELSE "read"]
  /\ UNCHANGED <<cfgVars, match_info, headers, prepared, chunk, exc, relayExc,
                 result, log, procVars, respVars>>

\* server.py:112 chunk = await zip_process.stdout.read(CHUNK_SIZE)
ReadOk(r) ==
  /\ pc[r] = "read"
  /\ ReadReady(buffer[r], eof[r])
  /\ chunk' = [chunk EXCEPT ![r] = ReadData(buffer[r], CHUNK_SIZE)]
  /\ buffer' = [buffer EXCEPT ![r] = ReadRest(buffer[r], CHUNK_SIZE)]
  /\ pc' = [pc EXCEPT ![r] = "write"]
  /\ log' = [log EXCEPT ![r] = Append(@, Call("read", Len(chunk'[r]), "none"))]
  /\ UNCHANGED <<cfgVars, match_info, headers, prepared, exc, relayExc, result,
                 procState, returncode, exitPc, eof, produced, killCalls, reaped,
                 respVars>>

\* server.py:112 the read raises (an error set on the pipe's stream).
ReadFail(r) ==
  /\ pc[r] = "read"
  /\ Raise(r, "OSError")
  /\ log' = [log EXCEPT ![r] = Append(@, Call("read", 0, "OSError"))]
  /\ UNCHANGED <<cfgVars, match_info, headers, prepared, chunk, result,
                 procVars, respVars>>

Read(r) == ReadOk(r) \/ ReadFail(r)

\* A relay that never pauses.
NoPacing(slow) == "at_eof"

\* server.py:116 if SLOWDOWN: the position that follows a write.
AfterWrite(slow) == IF slow THEN "sleep" ELSE "at_eof"

\* server.py:113-116 await response.write(chunk), then the pacing test.
WriteOk(r) ==
  /\ pc[r] = "write"
  /\ sent' = [sent EXCEPT ![r] = Deliver(@, chunk[r])]
  /\ pc' = [pc EXCEPT ![r] = AfterWrite(SLOWDOWN)]
  /\ log' = [log EXCEPT ![r] = Append(@, Call("write", Len(chunk[r]), "none"))]
  /\ UNCHANGED <<cfgVars, match_info, headers, prepared, chunk, exc, relayExc, result,
                 procVars, eofSent>>

\* server.py:114 the write raises: the client has gone.
WriteFail(r) ==
  /\ pc[r] = "write"
  /\ Raise(r, "ConnectionResetError")
  /\ log' = [log EXCEPT ![r] =
               Append(@, Call("write", Len(chunk[r]), "ConnectionResetError"))]
  /\ UNCHANGED <<cfgVars, match_info, headers, prepared, chunk, result,
                 procVars, respVars>>

Write(r) == WriteOk(r) \/ WriteFail(r)

\* server.py:117 await asyncio.sleep(TIME2DELAY)
Sleep(r) ==
  /\ pc[r] = "sleep"
  /\ pc' = [pc EXCEPT ![r] = "at_eof"]
  /\ log' = [log EXCEPT ![r] = Append(@, Call("sleep", TIME2DELAY, "none"))]
  /\ UNCHANGED <<cfgVars, match_info, headers, prepared, chunk, exc, relayExc,
                 result, procVars, respVars>>

\* server.py:119 await response.write_eof()
WriteEofOk(r) ==
  /\ pc[r] = "write_eof"
  /\ eofSent' = [eofSent EXCEPT ![r] = @ + 1]
  /\ pc' = [pc EXCEPT ![r] = "finally"]
  /\ log' = [log EXCEPT ![r] = Append(@, Call("write_eof", 0, "none"))]
  /\ UNCHANGED <<cfgVars, match_info, headers, prepared, chunk, exc, relayExc, result,
                 procVars, sent>>

\* server.py:119 write_eof raises: the client has gone.
WriteEofFail(r) ==
  /\ pc[r] = "write_eof"
  /\ Raise(r, "ConnectionResetError")
  /\ log' = [log EXCEPT ![r] = Append(@, Call("write_eof", 0, "ConnectionResetError"))]
  /\ UNCHANGED <<cfgVars, match_info, headers, prepared, chunk, result,
                 procVars, respVars>>

WriteEof(r) == WriteEofOk(r) \/ WriteEofFail(r)

\* ------------------------------------------------- handler: except, finally
\* The subprocess transport is closed once the exit status is known and the
\* stdout pipe has reached end-of-file; kill() on a closed transport raises
\* ProcessLookupError.
TransportClosed(st, e) == st = "exited" /\ e

\* The handler returns from wait() and leaves its body: normally when no
\* exception is in flight, else with that exception.
Reap(r) ==
  /\ reaped' = [reaped EXCEPT ![r] = TRUE]
  /\ log' = [log EXCEPT ![r] = Append(@, Call("wait", 0, "none"))]
  /\ Leave(r, IF exc[r] = "none" THEN "returned" ELSE exc[r])

\* One process handle that every handler shares.
SharedProcess(r) == 1

\* server.py:104 zip_process is a local of the coroutine: the handler of r
\* holds the handle of the process it spawned.
zip_process(r) == r

\* server.py:120-126 the bare except clause: log, zip_process.kill(), raise.
Except(r) ==
  /\ pc[r] = "except"
  /\ killCalls' = [killCalls EXCEPT ![zip_process(r)] = @ + 1]
  /\ IF TransportClosed(procState[zip_process(r)], eof[zip_process(r)])
     THEN /\ exc' = [exc EXCEPT ![r] = "ProcessLookupError"]
          /\ log' = [log EXCEPT ![r] = Append(@, Call("kill", 0, "ProcessLookupError"))]
          /\ UNCHANGED procState
     ELSE /\ procState' = [procState EXCEPT ![zip_process(r)] =
                             IF @ = "running" THEN "killed" ELSE @]
          /\ log' = [log EXCEPT ![r] = Append(@, Call("kill", 0, "none"))]
          /\ UNCHANGED exc
  /\ pc' = [pc EXCEPT ![r] = "finally"]
  /\ UNCHANGED <<cfgVars, match_info, headers, prepared, chunk, relayExc, result,
                 returncode, exitPc, eof, buffer, produced, reaped, respVars>>

\* server.py:128-129 finally: await zip_process.wait().  wait() returns at
\* once when the exit status is already known, else the handler suspends.
Finally(r) ==
  /\ pc[r] = "finally"
  /\ IF procState[r] = "exited"
     THEN Reap(r)
     ELSE /\ pc' = [pc EXCEPT ![r] = "waiting"]
          /\ UNCHANGED <<reaped, log, result>>
  /\ UNCHANGED <<cfgVars, match_info, headers, prepared, chunk, exc, relayExc,
                 procState, returncode, exitPc, eof, buffer, produced, killCalls, respVars>>

\* server.py:129 the suspended wait() resumes when the archiver has exited.
WaitDone(r) ==
  /\ pc[r] = "waiting"
  /\ procState[r] = "exited"
  /\ Reap(r)
  /\ UNCHANGED <<cfgVars, match_info, headers, prepared, chunk, exc, relayExc,
                 procState, returncode, exitPc, eof, buffer, produced, killCalls, respVars>>

\* The framework cancels the handler's task (client disconnect, shutdown):
\* CancelledError is raised out of the await the handler is suspended in.
\* Inside the try block it is caught by the bare except; at prepare, at the
\* spawn and at the wait() of the finally clause nothing catches it.  A
\* cancelled write may or may not have handed its data to the transport.
Cancel(r) ==
  /\ pc[r] \in Awaits
  /\ exc' = [exc EXCEPT ![r] = "CancelledError"]
  /\ log' = [log EXCEPT ![r] =
               Append(@, Call(OpOf(pc[r]), IF pc[r] = "write" THEN Len(chunk[r]) ELSE 0,
                              "CancelledError"))]
  /\ IF pc[r] \in TryAwaits
     THEN /\ pc' = [pc EXCEPT ![r] = "except"]
          /\ relayExc' = [relayExc EXCEPT ![r] = "CancelledError"]
          /\ UNCHANGED result
     ELSE /\ Leave(r, "CancelledError")
          /\ UNCHANGED relayExc
  /\ IF pc[r] = "write"
     THEN \E d \in {<<>>, chunk[r]} : sent' = [sent EXCEPT ![r] = Deliver(@, d)]
     ELSE UNCHANGED sent
  /\ UNCHANGED <<cfgVars, match_info, headers, prepared, chunk, procVars, eofSent>>

\* ---------------------------------------------------------------- archiver
\* The zip process writes one more byte to its stdout, up to max bytes in
\* all; byte k has value k.
ProduceUpTo(r, max) ==
  /\ procState[r] = "running"
  /\ ~eof[r]
  /\ Len(produced[r]) < max
  /\ LET b == Len(produced[r]) + 1
     IN  /\ produced' = [produced EXCEPT ![r] = Append(@, b)]
         /\ buffer' = [buffer EXCEPT ![r] = Append(@, b)]
  /\ UNCHANGED <<cfgVars, reqVars, procState, returncode, exitPc, eof, killCalls, reaped,
                 respVars>>

Produce(r) == ProduceUpTo(r, MaxOut)

\* The event loop sees end-of-file on the archiver's stdout pipe (the
\* process closed it, or exited) and feeds it to the stream.
CloseStdout(r) ==
  /\ procState[r] # "none"
  /\ ~eof[r]
  /\ eof' = [eof EXCEPT ![r] = TRUE]
  /\ UNCHANGED <<cfgVars, reqVars, procState, returncode, exitPc, buffer, produced,
                 killCalls, reaped, respVars>>

\* The archiver exits: by itself with status 0 (success) or 1 (failure), or
\* from the SIGKILL it was sent.
Exit(r) ==
  /\ procState[r] \in {"running", "killed"}
  /\ \E rc \in (IF procState[r] = "killed" THEN {SIGKILLED} ELSE {0, 1}) :
        returncode' = [returncode EXCEPT ![r] = rc]
  /\ procState' = [procState EXCEPT ![r] = "exited"]
  /\ exitPc' = [exitPc EXCEPT ![r] = IF pc[r] \in LoopPcs THEN "loop" ELSE "after"]
  /\ UNCHANGED <<cfgVars, reqVars, eof, buffer, produced, killCalls, reaped,
                 respVars>>

\* ------------------------------------------------------------ specification
HandlerStep(r) ==
  \/ CheckHash(r) \/ CheckExists(r) \/ MakeResponse(r) \/ Prepare(r) \/ Spawn(r)
  \/ AtEof(r) \/ Read(r) \/ Write(r) \/ Sleep(r) \/ WriteEof(r)
  \/ Except(r) \/ Finally(r) \/ WaitDone(r)

ArchiverStep(r) == Produce(r) \/ CloseStdout(r) \/ Exit(r)

Next == \E r \in Reqs : HandlerStep(r) \/ Cancel(r) \/ ArchiverStep(r)

Spec == Init /\ [][Next]_vars

\* The steps a handler takes when nothing fails: the synchronous code and
\* the normal completion of each await.
Progress(r) ==
  \/ CheckHash(r) \/ CheckExists(r) \/ MakeResponse(r) \/ PrepareOk(r) \/ SpawnOk(r)
  \/ AtEof(r) \/ ReadOk(r) \/ WriteOk(r) \/ Sleep(r) \/ WriteEofOk(r)
  \/ Except(r) \/ Finally(r) \/ WaitDone(r)

\* Weak fairness of what the event loop and the operating system guarantee:
\* a handler whose await can complete is resumed, end-of-file on a closed
\* pipe is delivered, and an archiver that has finished (or was sent
\* SIGKILL) exits.  Nothing obliges the archiver to produce output, an
\* await to fail, or the framework to cancel.
Fairness ==
  \A r \in Reqs :
    /\ WF_vars(Progress(r))
    /\ WF_vars(CloseStdout(r))
    /\ WF_vars(Exit(r))

LiveSpec == Spec /\ Fairness

\* Two requests for the same folder are served at once, with pacing; each
\* archiver writes at most ConcOut bytes.
ConcInit ==
  /\ InitWith({1, 2}, {<<>>, [archive_hash |-> <<"a">>]})
  /\ \A r \in {1, 2} : HasHash(match_info[r])
  /\ SLOWDOWN

ConcArchiverStep(r) == ProduceUpTo(r, ConcOut) \/ CloseStdout(r) \/ Exit(r)

ConcNext == \E r \in Reqs : HandlerStep(r) \/ Cancel(r) \/ ConcArchiverStep(r)

ConcSpec == ConcInit /\ [][ConcNext]_vars

\* ------------------------------------------------------ vocabulary of claims
\* The handler of r has left its body.
Terminal(r) == pc[r] = "done"

\* The archiver process of r was spawned.
Spawned(r) == procState[r] # "none"

\* Positions of the call log of r that hold operation op.
Calls(r, op) == {i \in 1..Len(log[r]) : log[r][i].op = op}

\* An exception or a cancellation was delivered to the handler of r.
Faulted(r) == \E i \in 1..Len(log[r]) : log[r][i].err # "none"

IsPrefix(s, t) == Len(s) <= Len(t) /\ s = SubSeq(t, 1, Len(s))

\* The identifier holds a path separator or the parent-directory sequence.
Traversal(id) ==
  \/ \E i \in 1..Len(id) : id[i] = "/"
  \/ \E i \in 1..(Len(id) - 1) : id[i] = "." /\ id[i + 1] = "."

\* ------------------------------------------------------------------ claims

\* C1: a request whose archiver process was spawned does not leave the
\* handler body, on any path, before wait() on that process has returned:
\* no terminal state has a spawned process that was not waited for.
C1_ReapedOnEveryExit ==
  \A r \in Reqs : (Terminal(r) /\ Spawned(r)) => reaped[r]

\* C2: when the relay loop raised, the handler leaves only after kill() was
\* called and then wait() returned, and it leaves with the error the relay
\* raised (not swallowed, not replaced, not before kill and wait).
C2_KillWaitThenOriginalError ==
  \A r \in Reqs :
    (Terminal(r) /\ relayExc[r] # "none") =>
      /\ result[r] = relayExc[r]
      /\ reaped[r]
      /\ \E k \in Calls(r, "kill"), w \in Calls(r, "wait") :
            k < w /\ log[r][w].err = "none"

\* C3: after a failed write to the response there is no further read, write
\* or write_eof, and the request ends with its archiver killed and reaped.
C3_WriteFailureAborts ==
  \A r \in Reqs :
    \A i \in Calls(r, "write") :
      log[r][i].err = "ConnectionResetError" =>
        /\ \A j \in (i + 1)..Len(log[r]) :
              log[r][j].op \notin {"read", "write", "write_eof"}
        /\ Terminal(r) => (killCalls[r] = 1 /\ reaped[r])

\* C4: an identifier that holds '..' or a path separator is rejected with
\* 400 or 404 (_exists being false for it): its request never gets past
\* the directory check, so no archiver is ever spawned for it.
C4_TraversalRejected ==
  \A r \in Reqs :
    (HasHash(match_info[r]) /\ Traversal(archive_hash(r))) => ~Spawned(r)

\* C5: a request whose identifier names no directory under the media root
\* ends with HTTPNotFound, and on that path no response headers are
\* prepared and no archiver process is spawned.
C5_NotFound ==
  \A r \in Reqs :
    (HasHash(match_info[r]) /\ ~isdir(join(MEDIA_DIR, archive_hash(r)))) =>
      /\ pc[r] \in {"start", "exists", "done"}
      /\ Terminal(r) => result[r] = "HTTPNotFound"
      /\ headers[r] = {} /\ ~prepared[r]
      /\ ~Spawned(r) /\ log[r] = <<>>

\* C5 witness: a request for a plain name with no directory has been
\* answered 404.
C5_Witness ==
  \E r \in Reqs :
    /\ Terminal(r) /\ result[r] = "HTTPNotFound"
    /\ HasHash(match_info[r]) /\ ~Traversal(archive_hash(r))

\* C6: the response is finalized exactly once when the request succeeds and
\* never when it fails: no request has both a completed write_eof and a
\* failed end, whatever arrives after the last chunk.
C6_FinalizedIffSuccess ==
  \A r \in Reqs :
    /\ eofSent[r] <= 1
    /\ Terminal(r) => (eofSent[r] = 1 <=> result[r] = "returned")

\* C7: the payload written to the response is at every moment a prefix of
\* what the archiver has produced, and equals it when the handler returns.
C7_PrefixAndComplete ==
  \A r \in Reqs :
    /\ IsPrefix(sent[r], produced[r])
    /\ (Terminal(r) /\ result[r] = "returned") => sent[r] = produced[r]

\* C7 witness: a request has returned after relaying more bytes than one
\* chunk holds.
C7_Witness ==
  \E r \in Reqs :
    /\ Terminal(r) /\ result[r] = "returned"
    /\ Len(sent[r]) > CHUNK_SIZE
    /\ Cardinality(Calls(r, "write")) >= 2

\* C8: when the spawn of the archiver fails, no response headers have been
\* sent to the client yet.
C8_SpawnFailureBeforeHeaders ==
  \A r \in Reqs : result[r] = "FileNotFoundError" => ~prepared[r]

\* The archiver of r exited by itself with a failure status while the
\* handler was still in the relay loop.
FailedWhileStreaming(r) ==
  /\ procState[r] = "exited" /\ returncode[r] = 1
  /\ exitPc[r] = "loop"

\* C9: when the archiver has exited with a failure status during streaming,
\* the request does not end as a success: the handler does not return
\* normally, the response is not finalized, and the process is reaped.
C9_ArchiverFailureFails ==
  \A r \in Reqs :
    (Terminal(r) /\ FailedWhileStreaming(r)) =>
      (result[r] # "returned" /\ eofSent[r] = 0 /\ reaped[r])

\* C10 (safety part): a request whose archiver wrote nothing and closed its
\* output, and that met no failure or cancellation, ends by returning, with
\* the response finalized once, no payload byte sent and the process reaped.
ZeroByteCase(r) == Spawned(r) /\ eof[r] /\ produced[r] = <<>>

ZeroByteResult ==
  \A r \in Reqs :
    (Terminal(r) /\ ZeroByteCase(r) /\ ~Faulted(r)) =>
      /\ result[r] = "returned"
      /\ eofSent[r] = 1
      /\ sent[r] = <<>>
      /\ reaped[r]

\* C10: when the archiver writes zero bytes and closes its output, the
\* request does not hang: its handler leaves the loop and terminates, and
\* (unless a failure or cancellation was delivered) it returns with the
\* response finalized exactly once, empty, and the process reaped.
C10_ZeroByteCompletes ==
  /\ []ZeroByteResult
  /\ \A r \in Reqs : ZeroByteCase(r) ~> Terminal(r)

\* C10 witness: a request over an empty archiver output has returned, having
\* passed the empty read to the response.
C10_Witness ==
  \E r \in Reqs :
    /\ Terminal(r) /\ ZeroByteCase(r) /\ result[r] = "returned"
    /\ \E i \in Calls(r, "read") : log[r][i].n = 0 /\ log[r][i].err = "none"


\* The request of r was routed to archivate without an identifier, or with
\* an empty one.
NoIdentifier(r) ==
  /\ pc[r] # "idle"
  /\ \/ "archive_hash" \notin DOMAIN match_info[r]
     \/ match_info[r].archive_hash = <<>>

\* C11: a request whose identifier is missing or empty ends with
\* HTTPBadRequest before anything is allocated: the directory check is never
\* reached, no header is set or sent, no process spawned, no call made.
C11_BadRequest ==
  \A r \in Reqs :
    NoIdentifier(r) =>
      /\ pc[r] \in {"start", "done"}
      /\ Terminal(r) => result[r] = "HTTPBadRequest"
      /\ headers[r] = {} /\ ~prepared[r]
      /\ ~Spawned(r) /\ log[r] = <<>>

\* C11 witness: a request with an empty identifier has been answered 400.
C11_Witness ==
  \E r \in Reqs :
    /\ Terminal(r) /\ result[r] = "HTTPBadRequest"
    /\ "archive_hash" \in DOMAIN match_info[r]
    /\ match_info[r].archive_hash = <<>>


\* Positions of the call log of r that hold a completed pacing delay.
Delays(r) ==
  {i \in Calls(r, "sleep") : log[r][i].err = "none" /\ log[r][i].n = TIME2DELAY}

\* C12: with pacing enabled there is exactly one delay of TIME2DELAY between
\* any two consecutive chunk writes of a request, so a completed transfer of
\* M chunks holds at least M-1 delays; with pacing disabled no delay is made.
C12_Pacing ==
  \A r \in Reqs :
    /\ SLOWDOWN =>
         /\ \A i, j \in Calls(r, "write") :
              (i < j /\ \A k \in Calls(r, "write") : ~(i < k /\ k < j)) =>
                Cardinality({k \in Calls(r, "sleep") : i < k /\ k < j}) = 1
                /\ \E k \in Delays(r) : i < k /\ k < j
         /\ result[r] = "returned" =>
              Cardinality(Delays(r)) >= Cardinality(Calls(r, "write")) - 1
    /\ ~SLOWDOWN => Calls(r, "sleep") = {} /\ pc[r] # "sleep"

\* C12 witness: a paced transfer of two chunks has completed.
C12_Witness ==
  \E r \in Reqs :
    /\ SLOWDOWN /\ result[r] = "returned"
    /\ Cardinality({i \in Calls(r, "write") : log[r][i].n > 0}) >= 2


\* The value a setting must have once _configure_settings has run: the
\* command-line value when the option was given, else the value derived
\* from the environment.
Effective ==
  [ LOG_LVL   |-> IF args.debug # <<>>
                  THEN (IF args.debug[1] = "ON" THEN NOTSET ELSE ERROR)
                  ELSE Imported(environ).LOG_LVL,
    SLOWDOWN  |-> IF args.slowdown THEN TRUE ELSE Imported(environ).SLOWDOWN,
    MEDIA_DIR |-> IF args.media # <<>>
                  THEN args.media[1]
                  ELSE Imported(environ).MEDIA_DIR ]

\* C13: after _configure_settings each of log level, pacing and media root
\* holds the command-line value when its option was given and the
\* environment-derived value otherwise.
C13_CommandLineWins ==
  main = "serving" =>
    /\ LOG_LVL = Effective.LOG_LVL
    /\ SLOWDOWN = Effective.SLOWDOWN
    /\ MEDIA_DIR = Effective.MEDIA_DIR


\* Where the steps of r stand, read from the state and the call log: each
\* step has happened only after the one before it.
InOrder(r) ==
  /\ pc[r] \notin {"idle", "start", "done"} => ~NoIdentifier(r)
  /\ headers[r] # {} => ~NoIdentifier(r) /\ _exists(archive_hash(r))
  /\ log[r] # <<>> => headers[r] # {} /\ log[r][1].op = "prepare"
  /\ prepared[r] => log[r][1] = Call("prepare", 0, "none")
  /\ \A i \in Calls(r, "spawn") : prepared[r] /\ i = 2
  /\ Spawned(r) => Calls(r, "spawn") # {}
  /\ \A i \in Calls(r, "read") : Spawned(r) /\ i > 2
  /\ \A i \in Calls(r, "write") : \E j \in Calls(r, "read") : j < i
  /\ (sent[r] # <<>> \/ eofSent[r] > 0) => prepared[r]

\* C14: the steps of a request happen only in the order identifier check,
\* directory check, header setup, prepare, spawn, first read, first write;
\* no 400/404 is produced once the response is prepared, the headers are not
\* modified after prepare, and nothing is written before prepare.
C14_StepOrder ==
  /\ [](\A r \in Reqs :
          /\ InOrder(r)
          /\ prepared[r] => result[r] \notin {"HTTPBadRequest", "HTTPNotFound"}
          /\ prepared[r] => headers[r] = _response_header(archive_hash(r)))
  /\ [][\A r \in Reqs :
          /\ prepared[r] => headers'[r] = headers[r]
          /\ (log'[r] # log[r] /\ log'[r][Len(log'[r])].op \in {"write", "write_eof"})
               => prepared[r]]_vars

\* C14 witness: a request has gone through every step up to a write of
\* archive bytes.
C14_Witness ==
  \E r \in Reqs : \E i \in Calls(r, "write") :
    log[r][i].n > 0 /\ log[r][i].err = "none" /\ sent[r] # <<>>


\* Everything that belongs to request q: its handler's locals, its archiver
\* process and its response.
Own(q) ==
  << match_info[q], pc[q], headers[q], prepared[q], chunk[q], exc[q],
     relayExc[q], result[q], log[q], procState[q], returncode[q], exitPc[q],
     eof[q], buffer[q], produced[q], killCalls[q], reaped[q], sent[q],
     eofSent[q] >>

\* This step is a call of the handler of q to one of the operations ops.
CallsOneOf(q, ops) ==
  /\ Len(log'[q]) = Len(log[q]) + 1
  /\ log'[q][Len(log'[q])].op \in ops

\* C15: with two requests interleaved, a step touches the state of one
\* request only; a process is read, killed and waited-on, and a response
\* written, only in a call of its own request; a process is killed only when
\* its own request faulted; and a request that returned has delivered the
\* whole output of its process and finalized, whatever happened to the other.
C15_Isolation ==
  /\ [][\A q \in Reqs :
          /\ \A r \in Reqs \ {q} : Own(r)' # Own(r) => Own(q)' = Own(q)
          /\ Len(buffer'[q]) < Len(buffer[q]) => CallsOneOf(q, {"read"})
          /\ killCalls'[q] # killCalls[q] => CallsOneOf(q, {"kill"})
          /\ reaped'[q] # reaped[q] => CallsOneOf(q, {"wait"})
          /\ (sent'[q] # sent[q] \/ eofSent'[q] # eofSent[q])
               => CallsOneOf(q, {"write", "write_eof"})]_vars
  /\ [](\A q \in Reqs :
          /\ killCalls[q] = Cardinality(Calls(q, "kill"))
          /\ (procState[q] = "killed" \/ returncode[q] = SIGKILLED) => Faulted(q)
          /\ result[q] = "returned" => sent[q] = produced[q] /\ eofSent[q] = 1)

\* C15 witness: one request failed at a write and killed its process, while
\* the other delivered its whole archive and finalized, its process not
\* killed.
C15_Witness ==
  \E r, q \in Reqs :
    /\ r # q
    /\ \E i \in Calls(r, "write") : log[r][i].err = "ConnectionResetError"
    /\ killCalls[r] = 1 /\ Terminal(r)
    /\ result[q] = "returned" /\ killCalls[q] = 0 /\ returncode[q] = 0
    /\ sent[q] = produced[q] /\ produced[q] # <<>> /\ eofSent[q] = 1


\* Positions of the call log of r that hold a read that returned.
Reads(r) == {i \in Calls(r, "read") : log[r][i].err = "none"}

\* C16: the relay holds one chunk at a time: a read that returned is followed
\* at once by one write of exactly the bytes it returned, before any other
\* read; a chunk has at most CHUNK_SIZE bytes, and a short read is written
\* as it is, neither padded nor accumulated.
C16_OneChunk ==
  /\ [](\A r \in Reqs :
          /\ Len(chunk[r]) <= CHUNK_SIZE
          /\ \A i \in Calls(r, "write") :
               /\ log[r][i].n <= CHUNK_SIZE
               /\ i - 1 \in Reads(r) /\ log[r][i - 1].n = log[r][i].n
          /\ \A i \in Reads(r) :
               IF i = Len(log[r])
               THEN pc[r] = "write" /\ Len(chunk[r]) = log[r][i].n
               ELSE log[r][i + 1].op = "write"
          /\ pc[r] = "write" => IsPrefix(sent[r] \o chunk[r], produced[r]))
  /\ [][\A r \in Reqs :
          /\ CallsOneOf(r, {"read"}) /\ pc'[r] = "write" =>
               /\ buffer[r] = chunk'[r] \o buffer'[r]
               /\ Len(chunk'[r]) = Min(CHUNK_SIZE, Len(buffer[r]))
          /\ CallsOneOf(r, {"write"}) /\ pc'[r] # "except" =>
               sent'[r] = sent[r] \o chunk[r]
          /\ sent'[r] # sent[r] => sent'[r] = sent[r] \o chunk[r]]_vars

\* C16 witness: a full chunk and then a short one were read and written.
C16_Witness ==
  \E r \in Reqs : \E i, j \in Calls(r, "write") :
    /\ i < j
    /\ log[r][i] = Call("write", CHUNK_SIZE, "none")
    /\ log[r][j].err = "none" /\ log[r][j].n > 0 /\ log[r][j].n < CHUNK_SIZE


\* C17: with a fair scheduler and an archiver that eventually closes its
\* stdout and exits, every request that got as far as spawning its archiver
\* eventually reaches a terminal state with that process reaped.
C17_TerminatesReaped ==
  \A r \in Reqs : Spawned(r) ~> (Terminal(r) /\ reaped[r])


\* An exception or a cancellation came out of a call of the relay loop or
\* out of write_eof.
RelayFaulted(r) ==
  \E i \in 1..Len(log[r]) :
    /\ log[r][i].op \in {"read", "write", "sleep", "write_eof"}
    /\ log[r][i].err # "none"

\* C18: kill() is invoked on the archiver of a request exactly when an
\* exception or cancellation escaped the relay loop or write_eof (the
\* handler then stands in the except clause or has made the call); the
\* successful path only waits; kill() is invoked at most once.
C18_KillIffFault ==
  \A r \in Reqs :
    /\ killCalls[r] <= 1
    /\ killCalls[r] = Cardinality(Calls(r, "kill"))
    /\ killCalls[r] = 1 => RelayFaulted(r)
    /\ RelayFaulted(r) => (pc[r] = "except" \/ killCalls[r] = 1)
    /\ result[r] = "returned" =>
         /\ killCalls[r] = 0 /\ ~Faulted(r)
         /\ log[r][Len(log[r])] = Call("wait", 0, "none")
         /\ log[r][Len(log[r]) - 1] = Call("write_eof", 0, "none")

\* C18 witness: one request was cancelled in write_eof and killed its
\* archiver.
C18_Witness ==
  \E r \in Reqs :
    /\ \E i \in Calls(r, "write_eof") : log[r][i].err = "CancelledError"
    /\ killCalls[r] = 1 /\ procState[r] = "killed"


\* Positions of the call log of r that hold a write of a zero-length chunk.
EmptyWrites(r) == {i \in Calls(r, "write") : log[r][i].n = 0}

\* C19: a zero-length chunk is written only for the read that hit
\* end-of-stream, as the last write of the request: no read and no write
\* follows it, and unless a call fails or is cancelled the next calls are the
\* pacing delay (if any) and then write_eof.
C19_EmptyChunkLast ==
  \A r \in Reqs : \A i \in EmptyWrites(r) :
    /\ eof[r] /\ buffer[r] = <<>> /\ log[r][i - 1] = Call("read", 0, "none")
    /\ \A j \in (i + 1)..Len(log[r]) : log[r][j].op \notin {"read", "write"}
    /\ pc[r] \notin {"read", "write"}
    /\ \A j \in (i + 1)..Len(log[r]) :
         (/\ \A k \in i..(j - 1) : log[r][k].err = "none"
          /\ \A k \in (i + 1)..(j - 1) : log[r][k].op = "sleep")
           => log[r][j].op \in {"sleep", "write_eof"}
    /\ Cardinality(EmptyWrites(r)) = 1

\* C19 witness: a non-empty chunk, then a zero-length one, were written and
\* the response was finalized.
C19_Witness ==
  \E r \in Reqs : \E i \in EmptyWrites(r) :
    /\ log[r][i].err = "none"
    /\ \E j \in Calls(r, "write") : j < i /\ log[r][j].n > 0
    /\ eofSent[r] = 1 /\ result[r] = "returned"

====
